---- MODULE Spec2Model ----
(***************************************************************************)
(* OptiBreed: inbreeding and coancestry over a livestock pedigree.         *)
(*                                                                         *)
(* The model follows the Python sources:                                   *)
(*   app/pedigree/analysis/analyzer.py   tabular and path-based methods    *)
(*   app/pedigree/calculator.py          PedigreeCalculator                *)
(*   app/pedigree/validation/validator.py validate_pedigree                *)
(*   app/pedigree/main.py                run_simulation                    *)
(*   app/routes.py                       sessions and the result stream    *)
(*                                                                         *)
(* Coefficients are IEEE doubles in the code.  Every value the code        *)
(* produces on the pedigrees considered here is a dyadic rational with few *)
(* bits, so double arithmetic is exact on them; the model represents the   *)
(* value v by the integer v * One and halves exactly (Half is undefined,   *)
(* and TLC stops, if a halving would lose a bit).                          *)
(***************************************************************************)
EXTENDS Integers, Sequences, FiniteSets, TLC

\* ------------------------------------------------------------------ bounds
\* Largest number of animal rows of a generated pedigree.
MaxAnimals == 4
\* Largest number of rows of a raw table handed to validate_pedigree.
MaxRows == 2
\* Largest number of sires, and of dams, selected for one simulation.
MaxSelected == 2

\* Number of animal rows of a table uploaded to one of several sessions.
MaxSessionAnimals == 3
\* Largest number of sessions open at once.
MaxSessions == 2

\* Path lengths the step-by-step path search tells apart; longer paths are
\* recorded as MaxPathLen.  No path of an acyclic table is that long.
MaxPathLen == 5

\* Number of animals of the longest full-sib line: two founders and five
\* generations of two full sibs each.
MaxLineAnimals == 12

\* ------------------------------------------------------- values and cells
\* The double 1.0, in the model's fixed-point unit (2^20).
One == 1048576

\* pandas' missing value (NaN / pd.NA): an empty parent cell.
NA == -1000

\* A cell whose text is not a number (before pd.to_numeric).
NonNumeric == -1001

notna(x) == x # NA

\* 0.5 * x, exact.
Half(x) == CHOOSE y \in {x \div 2} : 2 * y = x

\* (0.5)**k * x, exact.
RECURSIVE HalfPow(_, _)
HalfPow(k, x) == IF k = 0 THEN x ELSE HalfPow(k - 1, Half(x))

\* pd.to_numeric(cell, errors='coerce')
to_numeric(cell) == IF cell = NonNumeric THEN NA ELSE cell

Min(S) == CHOOSE x \in S : \A y \in S : x <= y

Max(S) == CHOOSE x \in S : \A y \in S : y <= x

RECURSIVE SortedSeq(_)
SortedSeq(S) == IF S = {} THEN <<>> ELSE <<Min(S)>> \o SortedSeq(S \ {Min(S)})

Range(f) == {f[x] : x \in DOMAIN f}

\* dict.get(key, default) on a function used as a dict.
Get(dict, key, default) == IF key \in DOMAIN dict THEN dict[key] ELSE default

EmptyDict == [x \in {} |-> 0]

\* ------------------------------------------- analyzer.py: tabular method
\* df.drop_duplicates(subset=['animal_id']): the first row of each id.
FirstRow(rows, id) == rows[Min({k \in DOMAIN rows : to_numeric(rows[k].animal_id) = id})]

\* .set_index('animal_id').sort_index(): the ids in ascending order.
SortedIndex(rows) == SortedSeq({to_numeric(rows[k].animal_id) : k \in DOMAIN rows})

\* animal_pos.get(parent_id, -1) if pd.notna(parent_id) else -1, with
\* positions counted from 1 and 0 standing for the code's -1.
ParentPos(index, parent_id) ==
    IF notna(parent_id) /\ \E k \in DOMAIN index : index[k] = parent_id
    THEN CHOOSE k \in DOMAIN index : index[k] = parent_id
    ELSE 0

\* ParentsEntry reading only above the diagonal: an animal whose sire and
\* dam are one animal gets no coancestry.
ParentsEntry_off_diagonal(A, sire_pos, dam_pos) ==
    IF sire_pos < dam_pos THEN A[sire_pos][dam_pos]
    ELSE IF dam_pos < sire_pos THEN A[dam_pos][sire_pos] ELSE 0

\* The coancestry read for an animal whose parents are both listed.
ParentsEntry(A, sire_pos, dam_pos) ==
    IF sire_pos < dam_pos THEN A[sire_pos][dam_pos] ELSE A[dam_pos][sire_pos]

\* OneParentDiagonal taking half the parent's diagonal entry, as the branch
\* for two parents does with their coancestry.
OneParentDiagonal_inherits(A, parent_pos) == One + Half(A[parent_pos][parent_pos])

\* The diagonal entry of an animal with exactly one listed parent.
OneParentDiagonal(A, parent_pos) == One

\* One iteration of the loop over df.index: row and column i of A.  Every
\* read of the inner loop is of an entry the loop has not yet written, so
\* the row is computed from A as it stands when the iteration starts.
TabularRow(rows, index, i, A) ==
    LET row      == FirstRow(rows, index[i])
        sire_pos == ParentPos(index, row.sire_id)
        dam_pos  == ParentPos(index, row.dam_id)
        parent_pos == IF sire_pos # 0 THEN sire_pos ELSE dam_pos
        diag == IF sire_pos # 0 /\ dam_pos # 0
                THEN One + Half(ParentsEntry(A, sire_pos, dam_pos))
                ELSE IF sire_pos # 0 \/ dam_pos # 0
                     THEN OneParentDiagonal(A, parent_pos)
                     ELSE One
        val(j) == IF sire_pos # 0 /\ dam_pos # 0
                  THEN Half(A[sire_pos][j] + A[dam_pos][j])
                  ELSE IF sire_pos # 0 \/ dam_pos # 0
                       THEN Half(A[parent_pos][j])
                       ELSE 0
        known == sire_pos # 0 \/ dam_pos # 0
    IN  [r \in DOMAIN A |-> [c \in DOMAIN A |->
            IF r = i /\ c = i THEN diag
            ELSE IF known /\ r = i /\ c < i THEN val(c)
            ELSE IF known /\ c = i /\ r < i THEN val(r)
            ELSE A[r][c]]]

RECURSIVE TabularLoop(_, _, _, _)
TabularLoop(rows, index, i, A) ==
    IF i > Len(index) THEN A
    ELSE TabularLoop(rows, index, i + 1, TabularRow(rows, index, i, A))

\* astype(int) raises when an animal_id is not a number.
TabularRaises(rows) == \E k \in DOMAIN rows : to_numeric(rows[k].animal_id) = NA

\* calculate_inbreeding_tabular(df): the dict animal_id -> A[i, i] - 1.
calculate_inbreeding_tabular(rows) ==
    LET index == SortedIndex(rows)
        n     == Len(index)
        zeros == [r \in 1..n |-> [c \in 1..n |-> 0]]
        A     == TabularLoop(rows, index, 1, zeros)
    IN  [id \in Range(index) |->
            A[CHOOSE k \in 1..n : index[k] = id][CHOOSE k \in 1..n : index[k] = id] - One]

\* ---------------------------------------- analyzer.py: path-based method
\* {row.animal_id: (row.sire_id, row.dam_id) for row in df.itertuples()}:
\* a later row of the same id replaces an earlier one.
df_map_of(rows) ==
    [id \in {rows[k].animal_id : k \in DOMAIN rows} |->
        LET last == CHOOSE k \in DOMAIN rows :
                        /\ rows[k].animal_id = id
                        /\ \A l \in DOMAIN rows : rows[l].animal_id = id => l <= k
        IN  <<rows[last].sire_id, rows[last].dam_id>>]

\* The while loop of find_all_paths_to_ancestor: queue holds
\* <<current_id, path_to_current>> pairs, all_paths the lengths found.
RECURSIVE PathsLoop(_, _, _, _)
PathsLoop(df_map, queue, end_id, all_paths) ==
    IF queue = <<>> THEN all_paths
    ELSE LET current_id == Head(queue)[1]
             path       == Head(queue)[2]
             rest       == Tail(queue)
             new_path   == Append(path, current_id)
         IN  IF current_id = end_id
             THEN PathsLoop(df_map, rest, end_id, Append(all_paths, Len(new_path) - 1))
             ELSE IF current_id \in DOMAIN df_map
                  THEN LET sire_id == df_map[current_id][1]
                           dam_id  == df_map[current_id][2]
                           q1 == IF notna(sire_id)
                                 THEN Append(rest, <<sire_id, new_path>>) ELSE rest
                           q2 == IF notna(dam_id)
                                 THEN Append(q1, <<dam_id, new_path>>) ELSE q1
                       IN  PathsLoop(df_map, q2, end_id, all_paths)
                  ELSE PathsLoop(df_map, rest, end_id, all_paths)

\* find_all_paths_to_ancestor keeping the shortest paths only.
find_all_paths_shortest_only(df_map, start_id, end_id) ==
    LET all == PathsLoop(df_map, <<<<start_id, <<>>>>>>, end_id, <<>>)
        shortest(l) == \A k \in DOMAIN all : l <= all[k]
    IN  SelectSeq(all, shortest)

find_all_paths_to_ancestor(df_map, start_id, end_id) ==
    PathsLoop(df_map, <<<<start_id, <<>>>>>>, end_id, <<>>)

\* The ancestor loops (q_sire / q_dam with head): the set reached from
\* start, start included.
RECURSIVE AncestorsLoop(_, _, _, _)
AncestorsLoop(df_map, q, head, ancestors) ==
    IF head > Len(q) THEN ancestors
    ELSE LET curr == q[head]
         IN  IF curr \in DOMAIN df_map
             THEN LET p    == df_map[curr]
                      add0 == notna(p[1]) /\ p[1] \notin ancestors
                      a1   == IF add0 THEN ancestors \cup {p[1]} ELSE ancestors
                      q1   == IF add0 THEN Append(q, p[1]) ELSE q
                      add1 == notna(p[2]) /\ p[2] \notin a1
                      a2   == IF add1 THEN a1 \cup {p[2]} ELSE a1
                      q2   == IF add1 THEN Append(q1, p[2]) ELSE q1
                  IN  AncestorsLoop(df_map, q2, head + 1, a2)
             ELSE AncestorsLoop(df_map, q, head + 1, ancestors)

Ancestors(df_map, start) == AncestorsLoop(df_map, <<start>>, 1, {start})

common_ancestors(df_map, sire_id, dam_id) ==
    Ancestors(df_map, sire_id) \cap Ancestors(df_map, dam_id)

\* PathContribution with the exponent n + m.
PathContribution_no_plus_one(n, m, ancestor_inbreeding) ==
    HalfPow(n + m, One + ancestor_inbreeding)

\* (0.5)**(n + m + 1) * (1 + ancestor_inbreeding), analyzer.py line 136.
PathContribution(n, m, ancestor_inbreeding) ==
    HalfPow(n + m + 1, One + ancestor_inbreeding)

\* for n in sire_paths: for m in dam_paths: total += contribution
RECURSIVE SumOverDamPaths(_, _, _)
SumOverDamPaths(n, dam_paths, f) ==
    IF dam_paths = <<>> THEN 0
    ELSE PathContribution(n, Head(dam_paths), f) + SumOverDamPaths(n, Tail(dam_paths), f)

RECURSIVE SumOverPaths(_, _, _)
SumOverPaths(sire_paths, dam_paths, f) ==
    IF sire_paths = <<>> THEN 0
    ELSE SumOverDamPaths(Head(sire_paths), dam_paths, f)
         + SumOverPaths(Tail(sire_paths), dam_paths, f)

\* F_cache[key] = value
Put(dict, key, value) ==
    [x \in DOMAIN dict \cup {key} |-> IF x = key THEN value ELSE dict[x]]

\* _calculate_inbreeding_for_animal_path_based: the cache after the call;
\* the value returned is the cache's entry for animal_id.  The loop over
\* common_ancestors is AncestorSum: <<total_inbreeding, F_cache>> after the
\* ancestors in todo.
RECURSIVE PathBasedCache(_, _, _)
RECURSIVE AncestorSum(_, _, _, _, _, _)
AncestorSum(df_map, sire_id, dam_id, todo, total, F_cache) ==
    IF todo = {} THEN <<total, F_cache>>
    ELSE LET ancestor_id == Min(todo)
             cache1      == PathBasedCache(df_map, ancestor_id, F_cache)
             sire_paths  == find_all_paths_to_ancestor(df_map, sire_id, ancestor_id)
             dam_paths   == find_all_paths_to_ancestor(df_map, dam_id, ancestor_id)
         IN  AncestorSum(df_map, sire_id, dam_id, todo \ {ancestor_id},
                         total + SumOverPaths(sire_paths, dam_paths, cache1[ancestor_id]),
                         cache1)

PathBasedCache(df_map, animal_id, F_cache) ==
    IF animal_id \in DOMAIN F_cache THEN F_cache
    ELSE IF \/ animal_id \notin DOMAIN df_map
            \/ ~notna(df_map[animal_id][1])
            \/ ~notna(df_map[animal_id][2])
         THEN Put(F_cache, animal_id, 0)
         ELSE LET sire_id == df_map[animal_id][1]
                  dam_id  == df_map[animal_id][2]
                  r == AncestorSum(df_map, sire_id, dam_id,
                                   common_ancestors(df_map, sire_id, dam_id), 0, F_cache)
              IN  Put(r[2], animal_id, r[1])

\* The parents the search of find_all_paths_to_ancestor appends for x: none
\* when x is end_id (the loop continues) or has no row.
SearchParents(df_map, x, end_id) ==
    IF x = end_id \/ x \notin DOMAIN df_map THEN {}
    ELSE {df_map[x][1], df_map[x][2]} \ {NA}

\* The ids the search dequeues, starting from the ids in frontier.
RECURSIVE SearchReach(_, _, _, _)
SearchReach(df_map, frontier, end_id, seen) ==
    IF frontier \subseteq seen THEN seen
    ELSE SearchReach(df_map,
                     UNION {SearchParents(df_map, x, end_id) : x \in frontier},
                     end_id, seen \cup frontier)

\* find_all_paths_to_ancestor(df_map, start_id, end_id) never leaves its
\* loop: it dequeues an animal that is its own ancestor along parents the
\* search follows, and so dequeues it again and again.
SearchDiverges(df_map, start_id, end_id) ==
    \E x \in SearchReach(df_map, {start_id}, end_id, {}) :
        x \in SearchReach(df_map, SearchParents(df_map, x, end_id), end_id, {})

\* The nesting of _calculate_inbreeding_for_animal_path_based calls is
\* deeper than the number of animals: one animal's call is nested in itself.
\* The inner call meets the cache entries the outer one met, and those of
\* the calls finished since, which return at once; so it nests the same
\* calls again, without end, until the interpreter raises RecursionError.
RecursionRepeats(df_map, depth) == depth > Cardinality(DOMAIN df_map)

\* _calculate_inbreeding_for_animal_path_based with the ways it can end:
\* "returns" with the cache it leaves, "raises" (RecursionError) with the
\* cache as it is then, or "hangs" in a path search that never returns.
RECURSIVE PathBasedRun(_, _, _, _)
RECURSIVE AncestorRun(_, _, _, _, _, _, _, _)
AncestorRun(df_map, animal_id, sire_id, dam_id, todo, total, F_cache, depth) ==
    IF todo = {} THEN [kind |-> "returns", cache |-> Put(F_cache, animal_id, total)]
    ELSE LET ancestor_id == Min(todo)
             r == PathBasedRun(df_map, ancestor_id, F_cache, depth + 1)
         IN  IF r.kind # "returns" THEN r
             ELSE IF \/ SearchDiverges(df_map, sire_id, ancestor_id)
                     \/ SearchDiverges(df_map, dam_id, ancestor_id)
                  THEN [kind |-> "hangs", cache |-> r.cache]
                  ELSE AncestorRun(df_map, animal_id, sire_id, dam_id, todo \ {ancestor_id},
                           total + SumOverPaths(
                                       find_all_paths_to_ancestor(df_map, sire_id, ancestor_id),
                                       find_all_paths_to_ancestor(df_map, dam_id, ancestor_id),
                                       r.cache[ancestor_id]),
                           r.cache, depth)

PathBasedRun(df_map, animal_id, F_cache, depth) ==
    IF RecursionRepeats(df_map, depth) THEN [kind |-> "raises", cache |-> F_cache]
    ELSE IF animal_id \in DOMAIN F_cache THEN [kind |-> "returns", cache |-> F_cache]
    ELSE IF \/ animal_id \notin DOMAIN df_map
            \/ ~notna(df_map[animal_id][1])
            \/ ~notna(df_map[animal_id][2])
         THEN [kind |-> "returns", cache |-> Put(F_cache, animal_id, 0)]
         ELSE AncestorRun(df_map, animal_id, df_map[animal_id][1], df_map[animal_id][2],
                          common_ancestors(df_map, df_map[animal_id][1], df_map[animal_id][2]),
                          0, F_cache, depth)

\* calculate_inbreeding_path_based_for_animal(df, animal_id, F_cache)
calculate_inbreeding_path_based_for_animal(rows, animal_id, F_cache) ==
    PathBasedCache(df_map_of(rows), animal_id, F_cache)

\* ------------------------------------------------------- calculator.py
\* PedigreeCalculator.__init__: self.df with the id columns made numeric.
calculator_df(rows) ==
    [k \in DOMAIN rows |-> [animal_id |-> to_numeric(rows[k].animal_id),
                            sire_id   |-> to_numeric(rows[k].sire_id),
                            dam_id    |-> to_numeric(rows[k].dam_id)]]

get_inbreeding_meuwissen(F_meuwissen, animal_id) == Get(F_meuwissen, animal_id, 0)

\* get_inbreeding_traditional handing the analyzer a new dict on every call
\* and keeping that dict as the cache.
get_inbreeding_traditional_new_dict(rows, animal_id, F_path) ==
    calculate_inbreeding_path_based_for_animal(rows, animal_id, EmptyDict)

\* PedigreeCalculator.get_inbreeding_traditional(animal_id): self.F_path_cache
\* after the call; the value returned is its entry for animal_id.
get_inbreeding_traditional(rows, animal_id, F_path) ==
    calculate_inbreeding_path_based_for_animal(rows, animal_id, F_path)

\* CoancestryContribution with the sire's path length in place of the dam's.
CoancestryContribution_sire_length_twice(n, m, ancestor_inbreeding) ==
    HalfPow(n + n + 1, One + ancestor_inbreeding)

\* (0.5)**(n + m + 1) * (1 + ancestor_inbreeding), calculator.py line 86.
CoancestryContribution(n, m, ancestor_inbreeding) ==
    HalfPow(n + m + 1, One + ancestor_inbreeding)

RECURSIVE CoancestryOverDamPaths(_, _, _)
CoancestryOverDamPaths(n, dam_paths, f) ==
    IF dam_paths = <<>> THEN 0
    ELSE CoancestryContribution(n, Head(dam_paths), f)
         + CoancestryOverDamPaths(n, Tail(dam_paths), f)

RECURSIVE CoancestryOverPaths(_, _, _)
CoancestryOverPaths(sire_paths, dam_paths, f) ==
    IF sire_paths = <<>> THEN 0
    ELSE CoancestryOverDamPaths(Head(sire_paths), dam_paths, f)
         + CoancestryOverPaths(Tail(sire_paths), dam_paths, f)

RECURSIVE CoancestrySum(_, _, _, _, _)
CoancestrySum(df_map, F_meuwissen, sire_id, dam_id, todo) ==
    IF todo = {} THEN 0
    ELSE LET ancestor_id == Min(todo)
             ancestor_inbreeding == get_inbreeding_meuwissen(F_meuwissen, ancestor_id)
             sire_paths == find_all_paths_to_ancestor(df_map, sire_id, ancestor_id)
             dam_paths  == find_all_paths_to_ancestor(df_map, dam_id, ancestor_id)
         IN  CoancestryOverPaths(sire_paths, dam_paths, ancestor_inbreeding)
             + CoancestrySum(df_map, F_meuwissen, sire_id, dam_id, todo \ {ancestor_id})

\* PedigreeCalculator.calculate_coancestry(sire_id, dam_id)
calculate_coancestry(rows, F_meuwissen, sire_id, dam_id) ==
    LET df_map == df_map_of(rows)
    IN  CoancestrySum(df_map, F_meuwissen, sire_id, dam_id,
                      common_ancestors(df_map, sire_id, dam_id))

\* ------------------------------------------- validator.py and main.py
\* Step 6 of validate_pedigree for one parent cell: the parent is given and
\* is no row's animal_id.
InvalidParent(parent_id, valid_animal_ids) ==
    notna(parent_id) /\ parent_id \notin valid_animal_ids

\* Step 4 for one row: the animal is its own dam or its own sire.
SelfReference(animal_id, parent_id) == animal_id = parent_id

\* Step 5 for one row.
SameParents(sire_id, dam_id) == notna(dam_id) /\ dam_id = sire_id

\* validate_pedigree(data): the list of errors, each with the row number the
\* message names ("Row {idx + 2}", 0 for a message about the whole table).
\* The table always has the three required columns and its numeric cells
\* are integers, so steps 1 and the astype('Int64') failure do not arise.
validate_pedigree(data) ==
    LET d == calculator_df(data)
        index == [k \in DOMAIN d |-> k]
        NoId(k) == ~notna(d[k].animal_id)
        BadDam(k)  == InvalidParent(d[k].dam_id, {d[l].animal_id : l \in DOMAIN d})
        BadSire(k) == InvalidParent(d[k].sire_id, {d[l].animal_id : l \in DOMAIN d})
        Err(kind, ks) == [j \in DOMAIN ks |-> [kind |-> kind, row |-> ks[j] + 1]]
        One1(kind, cond) == IF cond THEN <<[kind |-> kind, row |-> 0]>> ELSE <<>>
    IN  IF \E k \in DOMAIN d : NoId(k)
        THEN Err("animal_id must be a number", SelectSeq(index, NoId))
        ELSE One1("duplicated animal_id",
                  \E k, l \in DOMAIN d : k # l /\ d[k].animal_id = d[l].animal_id)
             \o One1("own dam", \E k \in DOMAIN d : SelfReference(d[k].animal_id, d[k].dam_id))
             \o One1("own sire", \E k \in DOMAIN d : SelfReference(d[k].animal_id, d[k].sire_id))
             \o One1("dam and sire the same",
                     \E k \in DOMAIN d : SameParents(d[k].sire_id, d[k].dam_id))
             \o Err("dam_id is not a valid animal_id", SelectSeq(index, BadDam))
             \o Err("sire_id is not a valid animal_id", SelectSeq(index, BadSire))

\* run_simulation (main.py): hypothetical offspring with ids -1, -2, ...,
\* one per (sire, dam) pair, sires outermost.
mating_pairs(selected_sires_ids, selected_dams_ids) ==
    LET nd == Len(selected_dams_ids)
    IN  [p \in 1..(Len(selected_sires_ids) * nd) |->
            [sire_id      |-> selected_sires_ids[((p - 1) \div nd) + 1],
             dam_id       |-> selected_dams_ids[((p - 1) % nd) + 1],
             offspring_id |-> 0 - p]]

\* pd.concat([core_df, offspring_df], ignore_index=True)
extended_df(rows, pairs) ==
    rows \o [p \in DOMAIN pairs |-> [animal_id |-> pairs[p].offspring_id,
                                     sire_id   |-> pairs[p].sire_id,
                                     dam_id    |-> pairs[p].dam_id]]

\* The keys of results_by_sire, in the order a dict keeps them.
RECURSIVE DictKeys(_)
DictKeys(ids) ==
    IF ids = <<>> THEN <<>>
    ELSE LET front == DictKeys(SubSeq(ids, 1, Len(ids) - 1))
             last  == ids[Len(ids)]
         IN  IF last \in Range(front) THEN front ELSE Append(front, last)

\* SumIbc adding each detail's dam_ibc to the running total.
RECURSIVE SumIbc_of_dams(_)
SumIbc_of_dams(details) ==
    IF details = <<>> THEN 0 ELSE Head(details).dam_ibc + SumIbc_of_dams(Tail(details))

\* results_by_sire[sire_id]['total_ibc'] += offspring_ibc, over the pairs.
RECURSIVE SumIbc(_)
SumIbc(details) ==
    IF details = <<>> THEN 0 ELSE Head(details).offspring_ibc + SumIbc(Tail(details))

\* The order sorted(..., key=total_ibc) gives: ascending, ties in the order
\* of the input.
SortKeyBefore(x, y) == x.total_ibc <= y.total_ibc

RECURSIVE SortedByTotal(_)
SortedByTotal(entries) ==
    IF entries = <<>> THEN <<>>
    ELSE LET front == SortedByTotal(SubSeq(entries, 1, Len(entries) - 1))
             x     == entries[Len(entries)]
             keep(e) == SortKeyBefore(e, x)
             drop(e) == ~SortKeyBefore(e, x)
         IN  SelectSeq(front, keep) \o <<x>> \o SelectSeq(front, drop)

\* The value run_simulation hands to the template (simulation_data).
run_simulation(rows, selected_sires_ids, selected_dams_ids) ==
    IF selected_sires_ids = <<>> \/ selected_dams_ids = <<>> THEN <<>>
    ELSE
    LET base_ibcs == calculate_inbreeding_tabular(rows)
        pairs     == mating_pairs(selected_sires_ids, selected_dams_ids)
        all_ibcs  == calculate_inbreeding_tabular(extended_df(rows, pairs))
        detail(p) == [dam_id        |-> pairs[p].dam_id,
                      dam_ibc       |-> Get(base_ibcs, pairs[p].dam_id, 0),
                      offspring_ibc |-> Get(all_ibcs, pairs[p].offspring_id, 0)]
        keys      == DictKeys(selected_sires_ids)
        entry(k)  ==
            LET mine(p) == pairs[p].sire_id = keys[k]
                ps      == SelectSeq([p \in DOMAIN pairs |-> p], mine)
                details == [j \in DOMAIN ps |-> detail(ps[j])]
            IN  [sire_id   |-> keys[k],
                 sire_ibc  |-> Get(base_ibcs, keys[k], 0),
                 total_ibc |-> SumIbc(details),
                 details   |-> details]
    IN  SortedByTotal([k \in DOMAIN keys |-> entry(k)])

\* ------------------------------------------------------------ the inputs
Row(animal_id, sire_id, dam_id) ==
    [animal_id |-> animal_id, sire_id |-> sire_id, dam_id |-> dam_id]

\* The pedigree of section 8 of the specification.
ExamplePedigree ==
    <<Row(1, NA, NA), Row(2, NA, NA), Row(3, 1, 2), Row(4, 1, 2), Row(5, 3, 4)>>

\* Parent structures on n animals in birth order: the k-th animal's sire and
\* dam are each missing (0) or one of the k - 1 animals before it.
RECURSIVE Structures(_)
Structures(n) ==
    IF n = 0 THEN {<<>>}
    ELSE {Append(st, <<s, d>>) : st \in Structures(n - 1), s \in 0..(n - 1), d \in 0..(n - 1)}

\* The ways the n animals are given ids: in birth order, or in the reverse
\* of it (every parent then has a larger id than its offspring).
Labelings(n) == {[k \in 1..n |-> k], [k \in 1..n |-> n + 1 - k]}

PedigreeOf(st, label) ==
    [k \in DOMAIN st |->
        Row(label[k],
            IF st[k][1] = 0 THEN NA ELSE label[st[k][1]],
            IF st[k][2] = 0 THEN NA ELSE label[st[k][2]])]

\* Tables with distinct numeric ids, every parent listed, no ancestry cycle.
Pedigrees ==
    {ExamplePedigree} \cup
    UNION {{PedigreeOf(st, label) : st \in Structures(n), label \in Labelings(n)}
           : n \in 1..MaxAnimals}

\* Pedigrees of up to MaxAnimals - 1 rows in which a founder's row is not
\* recorded: its offspring name a sire or dam that is no row's animal_id.
DanglingPedigrees == {Tail(p) : p \in {q \in Pedigrees : Len(q) \in 2..MaxAnimals}}

\* The tables uploaded to concurrent sessions: every one uses the ids
\* 1..MaxSessionAnimals, with its own parents.
SessionPedigrees ==
    {PedigreeOf(st, [k \in 1..MaxSessionAnimals |-> k]) : st \in Structures(MaxSessionAnimals)}

\* Tables of MaxSessionAnimals rows as /start_calculation takes them, which
\* validates nothing: every animal's sire and dam is missing or any other
\* animal, so that ancestry may run in cycles.
UncheckedTables ==
    {t \in [1..MaxSessionAnimals ->
                {Row(a, s, d) : a \in 1..MaxSessionAnimals,
                                s \in (1..MaxSessionAnimals) \cup {NA},
                                d \in (1..MaxSessionAnimals) \cup {NA}}] :
        \A k \in DOMAIN t : t[k].animal_id = k /\ t[k].sire_id # k /\ t[k].dam_id # k}

\* A line bred by full-sib mating, ids in birth order: animals 1 and 2 are
\* founders, 3 and 4 their offspring, 5 and 6 the offspring of 3 and 4, ...
FullSibLine ==
    [k \in 1..MaxLineAnimals |->
        IF k <= 2 THEN Row(k, NA, NA)
        ELSE Row(k, 2 * ((k - 1) \div 2) - 1, 2 * ((k - 1) \div 2))]

\* The line as recorded after each birth.
FullSibLines == {SubSeq(FullSibLine, 1, n) : n \in 2..MaxLineAnimals}

\* Raw tables as uploaded: ids may be text, parents may be missing, text,
\* or the id of no row.
RawRows ==
    {Row(a, s, d) : a \in (1..MaxRows) \cup {NonNumeric},
                    s \in (1..(MaxRows + 1)) \cup {NA, NonNumeric},
                    d \in (1..(MaxRows + 1)) \cup {NA, NonNumeric}}

RawTables == UNION {[1..n -> RawRows] : n \in 1..MaxRows}

\* The raw tables validate_pedigree accepts.
AcceptedTables == {t \in RawTables : validate_pedigree(t) = <<>>}

AnimalIds(rows) == {rows[k].animal_id : k \in DOMAIN rows}

\* The ids some row names as a sire or a dam.
ReferencedIds(rows) ==
    ({to_numeric(rows[k].sire_id) : k \in DOMAIN rows}
        \cup {to_numeric(rows[k].dam_id) : k \in DOMAIN rows}) \ {NA}

\* An id the table does not mention.
Unlisted(rows) == Max(AnimalIds(rows) \cup ReferencedIds(rows)) + 1

\* The ids a caller may ask about: the animals, the ids that are only
\* referenced as a parent, and an id the table does not mention.
QueryIds(rows) == AnimalIds(rows) \cup ReferencedIds(rows) \cup {Unlisted(rows)}

\* The lists a form may post: up to MaxSelected ids of the table.
Selections(rows) ==
    UNION {[1..n -> AnimalIds(rows)] : n \in 0..MaxSelected}

\* ------------------------------------------------------------ the state
VARIABLES
    df,                 \* the uploaded table, rows of animal_id, sire_id, dam_id
    validation,         \* "none", or validate_pedigree's verdict on df
    errors,             \* the list validate_pedigree returned
    calculator,         \* "none", "ready" or "failed": the session's PedigreeCalculator
    F_meuwissen_cache,  \* PedigreeCalculator.F_meuwissen_cache
    F_path_cache,       \* PedigreeCalculator.F_path_cache
    stream,             \* the events generate_results_stream has yielded
    call,               \* the last direct call of a calculator method and its result
    simulation,         \* the last run_simulation: its selections and simulation_data
    sessions            \* current_app.sessions: the data and calculator of each session

vars == <<df, validation, errors, calculator, F_meuwissen_cache, F_path_cache,
          stream, call, simulation, sessions>>

NoCall == [op |-> "none", a |-> 0, b |-> 0, ret |-> 0]

NoSimulation == [done |-> FALSE, sires |-> <<>>, dams |-> <<>>, data |-> <<>>]

Fresh ==
    /\ validation = "none"
    /\ errors = <<>>
    /\ calculator = "none"
    /\ F_meuwissen_cache = EmptyDict
    /\ F_path_cache = EmptyDict
    /\ stream = <<>>
    /\ call = NoCall
    /\ simulation = NoSimulation
    /\ sessions = <<>>

Init == df \in Pedigrees /\ Fresh

InitRaw == df \in RawTables /\ Fresh

InitSessions == df = <<>> /\ Fresh

InitSearch == df \in AcceptedTables \cup SessionPedigrees /\ Fresh

InitStream == df \in UncheckedTables /\ Fresh

InitLookup == df \in Pedigrees \cup DanglingPedigrees /\ Fresh

InitLine == df \in FullSibLines /\ Fresh

\* ---------------------------------------------------------- the actions
\* /pedigree/analysis: validate_pedigree(df) decides whether analysis runs.
Validate ==
    /\ validation = "none"
    /\ errors' = validate_pedigree(df)
    /\ validation' = IF errors' = <<>> THEN "accepted" ELSE "rejected"
    /\ UNCHANGED <<df, calculator, F_meuwissen_cache, F_path_cache, stream, call,
                   simulation, sessions>>

\* /start_calculation: PedigreeCalculator(df); a failure of the constructor
\* is answered with an error and no session is stored.
StartCalculation ==
    /\ calculator = "none"
    /\ IF TabularRaises(df)
       THEN /\ calculator' = "failed"
            /\ UNCHANGED <<F_meuwissen_cache, F_path_cache>>
       ELSE /\ calculator' = "ready"
            /\ F_meuwissen_cache' = calculate_inbreeding_tabular(calculator_df(df))
            /\ F_path_cache' = EmptyDict
    /\ UNCHANGED <<df, validation, errors, stream, call, simulation, sessions>>

\* Progress computed from the loop index as it is, not from i + 1.
Progress_of_index(i, total_animals) == (i * 100) \div total_animals

\* int(((i + 1) / total_animals) * 100)
Progress(i, total_animals) == ((i + 1) * 100) \div total_animals

\* An event of the stream that is not a data row.
StreamEvent(type) ==
    [type |-> type, animal_id |-> 0, ibc_meuwissen |-> 0, ibc_traditional |-> 0,
     progress |-> 0]

\* One yield of generate_results_stream: the next animal's row, the
\* 'complete' event after the last row, or the 'error' event of the except
\* clause when the row's computation raises.  A computation that never
\* returns yields nothing: the step cannot be taken.
CalculateIbcsStep ==
    /\ calculator = "ready"
    /\ \A k \in DOMAIN stream : stream[k].type = "data"
    /\ LET animal_ids    == [k \in DOMAIN df |-> calculator_df(df)[k].animal_id]
           total_animals == Len(animal_ids)
           i             == Len(stream)
       IN  IF i < total_animals
           THEN LET animal_id == animal_ids[i + 1]
                    run       == PathBasedRun(df_map_of(calculator_df(df)), animal_id,
                                              F_path_cache, 1)
                IN  /\ run.kind # "hangs"
                    /\ F_path_cache' = run.cache
                    /\ stream' =
                          IF run.kind = "raises"
                          THEN Append(stream, StreamEvent("error"))
                          ELSE Append(stream,
                                 [type            |-> "data",
                                  animal_id       |-> animal_id,
                                  ibc_meuwissen   |-> get_inbreeding_meuwissen(F_meuwissen_cache, animal_id),
                                  ibc_traditional |-> run.cache[animal_id],
                                  progress        |-> Progress(i, total_animals)])
           ELSE /\ stream' = Append(stream, StreamEvent("complete"))
                /\ UNCHANGED F_path_cache
    /\ UNCHANGED <<df, validation, errors, calculator, F_meuwissen_cache, call, simulation, sessions>>

\* calculator.calculate_coancestry(sire_id, dam_id).  The method reads the
\* session and writes nothing, so one recorded call stands for any number.
CalculateCoancestry ==
    /\ calculator = "ready"
    /\ call = NoCall
    /\ \E sire_id \in QueryIds(df), dam_id \in QueryIds(df) :
          call' = [op |-> "calculate_coancestry", a |-> sire_id, b |-> dam_id,
                   ret |-> calculate_coancestry(calculator_df(df), F_meuwissen_cache,
                                                sire_id, dam_id)]
    /\ UNCHANGED <<df, validation, errors, calculator, F_meuwissen_cache, F_path_cache,
                   stream, simulation, sessions>>

\* analyzer.find_all_paths_to_ancestor(df_map, start_id, end_id), as the
\* calculator calls it.
FindAllPaths ==
    /\ calculator = "ready"
    /\ call = NoCall
    /\ \E start_id \in QueryIds(df), end_id \in QueryIds(df) :
          call' = [op |-> "find_all_paths_to_ancestor", a |-> start_id, b |-> end_id,
                   ret |-> find_all_paths_to_ancestor(df_map_of(calculator_df(df)),
                                                      start_id, end_id)]
    /\ UNCHANGED <<df, validation, errors, calculator, F_meuwissen_cache, F_path_cache,
                   stream, simulation, sessions>>

\* calculator.get_inbreeding_meuwissen(animal_id)
GetInbreedingMeuwissen ==
    /\ calculator = "ready"
    /\ \E animal_id \in QueryIds(df) :
          call' = [op |-> "get_inbreeding_meuwissen", a |-> animal_id, b |-> 0,
                   ret |-> get_inbreeding_meuwissen(F_meuwissen_cache, animal_id)]
    /\ UNCHANGED <<df, validation, errors, calculator, F_meuwissen_cache, F_path_cache,
                   stream, simulation, sessions>>

\* calculator.get_inbreeding_traditional(animal_id).  The call's b records
\* whether the analyzer found animal_id in the cache (1) or computed it (0).
GetInbreedingTraditional ==
    /\ calculator = "ready"
    /\ \E animal_id \in QueryIds(df) :
          /\ F_path_cache' = get_inbreeding_traditional(calculator_df(df), animal_id,
                                                        F_path_cache)
          /\ call' = [op |-> "get_inbreeding_traditional", a |-> animal_id,
                      b |-> IF animal_id \in DOMAIN F_path_cache THEN 1 ELSE 0,
                      ret |-> F_path_cache'[animal_id]]
    /\ UNCHANGED <<df, validation, errors, calculator, F_meuwissen_cache, stream,
                   simulation, sessions>>

\* /start_calculation, seen from the application: a new session id, a new
\* PedigreeCalculator with its own two caches, stored in current_app.sessions.
StartSession ==
    /\ Len(sessions) < MaxSessions
    /\ \E data \in SessionPedigrees :
          sessions' = Append(sessions,
              [data              |-> data,
               F_meuwissen_cache |-> calculate_inbreeding_tabular(calculator_df(data)),
               F_path_cache      |-> EmptyDict])
    /\ UNCHANGED <<df, validation, errors, calculator, F_meuwissen_cache, F_path_cache,
                   stream, call, simulation>>

\* The cache of session_id's calculator read as one dict shared by every
\* calculator of the process.
SessionCache_process_wide(all_sessions, session_id) == all_sessions[1].F_path_cache

\* self.F_path_cache of the calculator stored under session_id.
SessionCache(all_sessions, session_id) == all_sessions[session_id].F_path_cache

\* A lookup in one session: both coefficients of one animal, as a step of
\* /calculate_ibcs asks for them.  The call's b is the session.
SessionLookup ==
    \E session_id \in DOMAIN sessions :
        \E animal_id \in AnimalIds(sessions[session_id].data) :
            LET cache == get_inbreeding_traditional(
                             calculator_df(sessions[session_id].data), animal_id,
                             SessionCache(sessions, session_id))
            IN  /\ sessions' = [sessions EXCEPT ![session_id].F_path_cache = cache]
                /\ call' = [op  |-> "session_lookup", a |-> animal_id, b |-> session_id,
                            ret |-> <<get_inbreeding_meuwissen(
                                          sessions[session_id].F_meuwissen_cache, animal_id),
                                      cache[animal_id]>>]
                /\ UNCHANGED <<df, validation, errors, calculator, F_meuwissen_cache,
                               F_path_cache, stream, simulation>>

\* find_all_paths_to_ancestor taken one iteration of its while loop at a
\* time.  A queue entry is <<current_id, len(path)>>: the loop uses the path
\* for its length only.
PathSearchBegin ==
    /\ calculator = "ready"
    /\ call = NoCall
    /\ \E start_id \in QueryIds(calculator_df(df)), end_id \in QueryIds(calculator_df(df)) :
          call' = [op |-> "find_all_paths_to_ancestor: in loop", a |-> start_id, b |-> end_id,
                   ret |-> <<>>, queue |-> <<<<start_id, 0>>>>]
    /\ UNCHANGED <<df, validation, errors, calculator, F_meuwissen_cache, F_path_cache,
                   stream, simulation, sessions>>

\* One iteration: queue.pop(0), then an append to all_paths or the parents'
\* entries appended to the queue.
PathSearchStep ==
    /\ call.op = "find_all_paths_to_ancestor: in loop"
    /\ call.queue # <<>>
    /\ LET df_map     == df_map_of(calculator_df(df))
           current_id == Head(call.queue)[1]
           path_len   == Head(call.queue)[2]
           rest       == Tail(call.queue)
           new_len    == IF path_len < MaxPathLen THEN path_len + 1 ELSE MaxPathLen
       IN  IF current_id = call.b
           THEN call' = [call EXCEPT !.queue = rest, !.ret = Append(call.ret, path_len)]
           ELSE IF current_id \in DOMAIN df_map
                THEN LET sire_id == df_map[current_id][1]
                         dam_id  == df_map[current_id][2]
                         q1 == IF notna(sire_id)
                               THEN Append(rest, <<sire_id, new_len>>) ELSE rest
                         q2 == IF notna(dam_id)
                               THEN Append(q1, <<dam_id, new_len>>) ELSE q1
                     IN  call' = [call EXCEPT !.queue = q2]
                ELSE call' = [call EXCEPT !.queue = rest]
    /\ UNCHANGED <<df, validation, errors, calculator, F_meuwissen_cache, F_path_cache,
                   stream, simulation, sessions>>

\* The loop's test fails on the empty queue: return all_paths.
PathSearchReturn ==
    /\ call.op = "find_all_paths_to_ancestor: in loop"
    /\ call.queue = <<>>
    /\ call' = [op |-> "find_all_paths_to_ancestor", a |-> call.a, b |-> call.b,
                ret |-> call.ret]
    /\ UNCHANGED <<df, validation, errors, calculator, F_meuwissen_cache, F_path_cache,
                   stream, simulation, sessions>>

\* /pedigree/run-simulation with the posted selected_sires and selected_dams.
RunSimulation ==
    /\ simulation = NoSimulation
    /\ ~TabularRaises(df)
    /\ \E selected_sires_ids \in Selections(df), selected_dams_ids \in Selections(df) :
          simulation' = [done  |-> TRUE,
                         sires |-> selected_sires_ids,
                         dams  |-> selected_dams_ids,
                         data  |-> run_simulation(df, selected_sires_ids, selected_dams_ids)]
    /\ UNCHANGED <<df, validation, errors, calculator, F_meuwissen_cache, F_path_cache,
                   stream, call, sessions>>

\* ------------------------------------------------------ specifications
\* A session: the calculator, its result stream and its methods.
Next == StartCalculation \/ CalculateIbcsStep \/ CalculateCoancestry \/ FindAllPaths

Spec == Init /\ [][Next]_vars

\* The mating simulation of the pedigree blueprint.
NextSim == RunSimulation

SpecSim == Init /\ [][NextSim]_vars

\* Validation of raw uploads.
NextValidate == Validate

SpecValidate == InitRaw /\ [][NextValidate]_vars

\* Several sessions of one process, their requests interleaved.
NextSessions == StartSession \/ SessionLookup

SpecSessions == InitSessions /\ [][NextSessions]_vars

\* One path search, run to its end: the interpreter keeps executing the
\* loop, so an iteration that can be taken is taken.
NextSearch == StartCalculation \/ PathSearchBegin \/ PathSearchStep \/ PathSearchReturn

SpecSearch ==
    InitSearch /\ [][NextSearch]_vars /\ WF_vars(PathSearchStep) /\ WF_vars(PathSearchReturn)

\* The result stream of a session whose table nobody validated.  The
\* server iterates the response to its end: a yield that can be made is made.
NextStream == StartCalculation \/ CalculateIbcsStep

\* The states in which StartCalculation can be taken: its guard.
StartCalculationEnabled == calculator = "none"

\* The states in which CalculateIbcsStep can be taken: its guard, and a
\* next row whose computation comes back (with a value or an exception).
CalculateIbcsStepEnabled ==
    /\ calculator = "ready"
    /\ \A k \in DOMAIN stream : stream[k].type = "data"
    /\ Len(stream) < Len(df) =>
          PathBasedRun(df_map_of(calculator_df(df)),
                       calculator_df(df)[Len(stream) + 1].animal_id,
                       F_path_cache, 1).kind # "hangs"

\* Weak fairness of the two steps, written out: a step that stays
\* possible is eventually taken.
SpecStream ==
    /\ InitStream
    /\ [][NextStream]_vars
    /\ []<>(~StartCalculationEnabled) \/ []<><<StartCalculation>>_vars
    /\ []<>(~CalculateIbcsStepEnabled) \/ []<><<CalculateIbcsStep>>_vars

\* Lookups on one calculator, in any order and with repetition, on tables
\* that may name parents they do not list.
NextLookup ==
    StartCalculation \/ GetInbreedingMeuwissen \/ GetInbreedingTraditional
        \/ CalculateCoancestry

SpecLookup == InitLookup /\ [][NextLookup]_vars

\* A full-sib line, validated and analysed: /pedigree/analysis validates
\* the table, /start_calculation and /calculate_ibcs compute both
\* coefficients of every animal.
NextLine == Validate \/ StartCalculation \/ CalculateIbcsStep

SpecLine == InitLine /\ [][NextLine]_vars

\* ------------------------------------------------------------ the claims
DataEvents == {stream[k] : k \in {j \in DOMAIN stream : stream[j].type = "data"}}

\* The event the stream yielded last, when it is a data row.
LastDataEvent ==
    IF stream # <<>> /\ stream[Len(stream)].type = "data"
    THEN {stream[Len(stream)]} ELSE {}

\* The row of df that lists the animal (ids are distinct in Pedigrees).
RowOf(rows, animal_id) == rows[CHOOSE k \in DOMAIN rows : rows[k].animal_id = animal_id]

HasBothParents(rows, animal_id) ==
    notna(RowOf(rows, animal_id).sire_id) /\ notna(RowOf(rows, animal_id).dam_id)

IsFounder(rows, animal_id) ==
    ~notna(RowOf(rows, animal_id).sire_id) /\ ~notna(RowOf(rows, animal_id).dam_id)

\* Every listed parent has a smaller id than its offspring.
IdsInBirthOrder(rows) ==
    \A k \in DOMAIN rows :
        /\ notna(rows[k].sire_id) => rows[k].sire_id < rows[k].animal_id
        /\ notna(rows[k].dam_id) => rows[k].dam_id < rows[k].animal_id

\* The parent-edge paths from start_id up to end_id, written independently
\* of the code's search: a path is the list of the edges taken (1 the sire
\* edge, 2 the dam edge), and Walk follows it.
RECURSIVE Walk(_, _, _)
Walk(df_map, at, edges) ==
    IF edges = <<>> THEN at
    ELSE IF at \in DOMAIN df_map /\ notna(df_map[at][Head(edges)])
         THEN Walk(df_map, df_map[at][Head(edges)], Tail(edges))
         ELSE NA

EdgePaths(df_map, start_id, end_id) ==
    {p \in UNION {[1..l -> {1, 2}] : l \in 0..Cardinality(DOMAIN df_map)} :
        Walk(df_map, start_id, p) = end_id}

Count(seq, x) == Cardinality({k \in DOMAIN seq : seq[k] = x})

\* The tabular coefficient of a real animal, with an id above every id of
\* the table, whose parents are sire_id and dam_id.
RealOffspringIbc(rows, sire_id, dam_id) ==
    LET new == Max(AnimalIds(rows)) + 1
    IN  calculate_inbreeding_tabular(Append(rows, Row(new, sire_id, dam_id)))[new]

\* sire_id and dam_id are full siblings whose two parents are founders.
FullSibsOfFounders(rows, sire_id, dam_id) ==
    /\ sire_id # dam_id
    /\ HasBothParents(rows, sire_id)
    /\ RowOf(rows, sire_id).sire_id = RowOf(rows, dam_id).sire_id
    /\ RowOf(rows, sire_id).dam_id = RowOf(rows, dam_id).dam_id
    /\ RowOf(rows, sire_id).sire_id # RowOf(rows, sire_id).dam_id
    /\ IsFounder(rows, RowOf(rows, sire_id).sire_id)
    /\ IsFounder(rows, RowOf(rows, sire_id).dam_id)

\* C1: in run_simulation every offspring_ibc equals the tabular coefficient
\* a real animal with that sire and dam would receive; for full siblings
\* of unrelated, non-inbred founders it is 0.25.
C1_OffspringIbcIsTabular ==
    simulation.done =>
        \A k \in DOMAIN simulation.data :
            \A j \in DOMAIN simulation.data[k].details :
                LET sire_id == simulation.data[k].sire_id
                    detail  == simulation.data[k].details[j]
                IN  /\ detail.offspring_ibc = RealOffspringIbc(df, sire_id, detail.dam_id)
                    /\ FullSibsOfFounders(df, sire_id, detail.dam_id)
                          => detail.offspring_ibc = One \div 4

\* No common ancestor of an animal's sire and dam is reached from the sire
\* or from the dam by more than one path.
SinglePaths(rows) ==
    \A k \in DOMAIN rows :
        (notna(rows[k].sire_id) /\ notna(rows[k].dam_id)) =>
            \A a \in common_ancestors(df_map_of(rows), rows[k].sire_id, rows[k].dam_id) :
                /\ Cardinality(EdgePaths(df_map_of(rows), rows[k].sire_id, a)) <= 1
                /\ Cardinality(EdgePaths(df_map_of(rows), rows[k].dam_id, a)) <= 1

\* C2: on a validated acyclic pedigree in which no common ancestor of a
\* sire and dam is reached by more than one path, the tabular and the
\* path-based coefficient of every animal are equal.  Stated on the
\* pedigrees of the claim whose ids are in birth order, where the tabular
\* method reads no entry of A before writing it.
C2_TabularAgreesWithPath ==
    (validate_pedigree(df) = <<>> /\ SinglePaths(df) /\ IdsInBirthOrder(df)) =>
        \A e \in DataEvents : e.ibc_meuwissen = e.ibc_traditional

\* Wright's sum written over the paths themselves: one term
\* (0.5)**(n + m + 1) * (1 + F(a)) for every common ancestor a, every path
\* of n edges from the sire to a and every path of m edges from the dam.
WrightTerms(df_map, sire_id, dam_id, F) ==
    UNION {{<<a, p, q, Get(F, a, 0)>> : p \in EdgePaths(df_map, sire_id, a),
                                        q \in EdgePaths(df_map, dam_id, a)}
           : a \in DOMAIN df_map \cup {sire_id, dam_id}}

RECURSIVE SumTerms(_)
SumTerms(terms) ==
    IF terms = {} THEN 0
    ELSE LET t == CHOOSE x \in terms : TRUE
         IN  HalfPow(Len(t[2]) + Len(t[3]) + 1, One + t[4]) + SumTerms(terms \ {t})

WrightSum(df_map, sire_id, dam_id, F) == SumTerms(WrightTerms(df_map, sire_id, dam_id, F))

\* C3: find_all_paths_to_ancestor returns one entry per distinct
\* parent-edge path from start up to end, the entry being the number of
\* edges of the path: [0] when start is end, [] when there is no path; so
\* the sums of the path-based inbreeding and of calculate_coancestry range
\* over every (sire path, dam path) pair.
C3_OneEntryPerPath ==
    /\ call.op = "find_all_paths_to_ancestor" =>
        LET paths == EdgePaths(df_map_of(df), call.a, call.b)
        IN  /\ Len(call.ret) = Cardinality(paths)
            /\ \A l \in 0..Len(df) :
                  Count(call.ret, l) = Cardinality({p \in paths : Len(p) = l})
            /\ call.a = call.b => call.ret = <<0>>
    /\ \A e \in LastDataEvent :
          HasBothParents(df, e.animal_id) =>
              e.ibc_traditional = WrightSum(df_map_of(df), RowOf(df, e.animal_id).sire_id,
                                            RowOf(df, e.animal_id).dam_id, F_path_cache)
    /\ call.op = "calculate_coancestry" =>
          call.ret = WrightSum(df_map_of(df), call.a, call.b, F_meuwissen_cache)

\* Two paths of different lengths to the same ancestor were returned.
C3_Witness ==
    /\ call.op = "find_all_paths_to_ancestor"
    /\ Len(call.ret) >= 2
    /\ \E k, l \in DOMAIN call.ret : call.ret[k] # call.ret[l]

\* The animals of df whose sire and dam are one and the same animal.
Selfed(rows) ==
    {rows[k].animal_id : k \in {j \in DOMAIN rows :
        notna(rows[j].sire_id) /\ rows[j].sire_id = rows[j].dam_id}}

C5_SelfCoancestry ==
    (call.op = "calculate_coancestry" /\ call.a = call.b /\ call.a \in AnimalIds(df)) =>
        call.ret = Half(One + get_inbreeding_meuwissen(F_meuwissen_cache, call.a))

\* C6: calculate_coancestry(a, b) = calculate_coancestry(b, a), for ids of
\* the pedigree and for ids that are not.
C6_CoancestrySymmetric ==
    call.op = "calculate_coancestry" =>
        call.ret = calculate_coancestry(calculator_df(df), F_meuwissen_cache, call.b, call.a)

\* A call on an animal and one of its ancestors, which are related.
C6_Witness ==
    /\ call.op = "calculate_coancestry"
    /\ call.a # call.b
    /\ call.b \in Ancestors(df_map_of(df), call.a)
    /\ call.ret > 0

\* C7: an animal with no recorded parent, or with only one, has inbreeding
\* exactly 0.0 by both methods.
C7_FounderInbreedingZero ==
    \A e \in DataEvents :
        ~HasBothParents(df, e.animal_id) =>
            e.ibc_meuwissen = 0 /\ e.ibc_traditional = 0

\* The row of an animal with one recorded parent, that parent being
\* inbred, has been emitted, and so has the row of a founder.
C7_Witness ==
    /\ \E e \in DataEvents :
          /\ ~HasBothParents(df, e.animal_id)
          /\ ~IsFounder(df, e.animal_id)
          /\ \E p \in {RowOf(df, e.animal_id).sire_id, RowOf(df, e.animal_id).dam_id} :
                notna(p) /\ F_meuwissen_cache[p] > 0
    /\ \E e \in DataEvents : IsFounder(df, e.animal_id)

\* C8: on the example pedigree both methods give 0 for animals 1 to 4 and
\* 0.25 for animal 5, and calculate_coancestry(3, 4) is 0.25.
C8_ExamplePedigree ==
    df = ExamplePedigree =>
        /\ \A e \in DataEvents :
              /\ e.ibc_meuwissen = (IF e.animal_id = 5 THEN One \div 4 ELSE 0)
              /\ e.ibc_traditional = (IF e.animal_id = 5 THEN One \div 4 ELSE 0)
        /\ (call.op = "calculate_coancestry" /\ call.a = 3 /\ call.b = 4)
              => call.ret = One \div 4

\* The example's five rows have been emitted and coancestry(3, 4) asked.
C8_Witness ==
    /\ df = ExamplePedigree
    /\ Cardinality(DataEvents) = 5
    /\ call.op = "calculate_coancestry" /\ call.a = 3 /\ call.b = 4

\* The ids of the raw table that are numbers.
NumericIds(rows) == {rows[k].animal_id : k \in DOMAIN rows} \ {NA, NonNumeric}

\* The raw table has one of the defects of C9 in row k.
DefectInRow(rows, k) ==
    \/ rows[k].animal_id = NonNumeric
    \/ rows[k].animal_id \in NumericIds(rows)
          /\ (rows[k].sire_id = rows[k].animal_id \/ rows[k].dam_id = rows[k].animal_id)
    \/ rows[k].sire_id \notin {NA, NonNumeric} /\ rows[k].sire_id = rows[k].dam_id
    \/ rows[k].sire_id # NA /\ rows[k].sire_id \notin NumericIds(rows)
    \/ rows[k].dam_id # NA /\ rows[k].dam_id \notin NumericIds(rows)

\* The same, reading a parent cell as a reference only when it is a number.
NumericDefectInRow(rows, k) ==
    \/ rows[k].animal_id = NonNumeric
    \/ rows[k].animal_id \in NumericIds(rows)
          /\ (rows[k].sire_id = rows[k].animal_id \/ rows[k].dam_id = rows[k].animal_id)
    \/ rows[k].sire_id \notin {NA, NonNumeric} /\ rows[k].sire_id = rows[k].dam_id
    \/ rows[k].sire_id \notin {NA, NonNumeric} /\ rows[k].sire_id \notin NumericIds(rows)
    \/ rows[k].dam_id \notin {NA, NonNumeric} /\ rows[k].dam_id \notin NumericIds(rows)

\* C9: validate_pedigree returns a non-empty error list for every input in
\* which an animal_id is non-numeric, an animal is its own sire or dam, an
\* animal's sire equals its dam, or a sire_id or dam_id is referenced that
\* is the animal_id of no row.
C9_MalformedRejected ==
    (validation # "none" /\ \E k \in DOMAIN df : DefectInRow(df, k)) =>
        (validation = "rejected" /\ errors # <<>>)

\* What holds of C9: the same, for parent cells that are numbers.
ValidateRejectsNumericDefects ==
    (validation # "none" /\ \E k \in DOMAIN df : NumericDefectInRow(df, k)) =>
        (validation = "rejected" /\ errors # <<>>)

\* id is an ancestor of itself along the numeric sire and dam cells.
RECURSIVE ReachUp(_, _, _)
ReachUp(rows, from, steps) ==
    IF steps = 0 THEN from
    ELSE LET up == {p \in NumericIds(rows) :
                       \E k \in DOMAIN rows :
                           /\ rows[k].animal_id \in from
                           /\ (rows[k].sire_id = p \/ rows[k].dam_id = p)}
         IN  up \cup ReachUp(rows, up, steps - 1)

Cyclic(rows) ==
    \E id \in NumericIds(rows) : id \in ReachUp(rows, {id}, Len(rows))

\* C10: validate_pedigree rejects every input whose sire/dam relation has a
\* cycle, so every pedigree it accepts is a DAG.
C10_CyclesRejected ==
    validation = "accepted" => ~Cyclic(df)

\* C11: a lookup for an id that is no animal_id of the pedigree returns
\* the neutral value 0.0: get_inbreeding_meuwissen(u), get_inbreeding_traditional(u)
\* and calculate_coancestry(u, b) for every b, b = u included, and for a u
\* that some row names as a parent.
C11_UnknownIdIsNeutral ==
    (/\ call.op \in {"get_inbreeding_meuwissen", "get_inbreeding_traditional",
                     "calculate_coancestry"}
     /\ call.a \notin AnimalIds(df))
        => call.ret = 0

\* What holds of C11: the two inbreeding lookups of an unknown id give 0.0.
UnknownIdHasNoInbreeding ==
    (/\ call.op \in {"get_inbreeding_meuwissen", "get_inbreeding_traditional"}
     /\ call.a \notin AnimalIds(df))
        => call.ret = 0

\* The value get_inbreeding_traditional returns on a new calculator.
FirstCallValue(rows, animal_id) ==
    get_inbreeding_traditional(calculator_df(rows), animal_id, EmptyDict)[animal_id]

\* Every value a lookup has returned, and every value the cache holds, is a
\* first call's.
LookupsAsFirstCall ==
    /\ call.op = "get_inbreeding_traditional" => call.ret = FirstCallValue(df, call.a)
    /\ call.op = "get_inbreeding_meuwissen" =>
           call.ret = Get(calculate_inbreeding_tabular(calculator_df(df)), call.a, 0)
    /\ \A k \in DOMAIN F_path_cache : F_path_cache[k] = FirstCallValue(df, k)

\* A step leaves every key of F_path_cache in place, with its value.
CacheWriteOnce ==
    \A k \in DOMAIN F_path_cache :
        k \in DOMAIN F_path_cache' /\ F_path_cache'[k] = F_path_cache[k]

\* C12: whatever calls came before, get_inbreeding_meuwissen and
\* get_inbreeding_traditional return for an animal what a first call on a
\* new PedigreeCalculator returns, and a key of F_path_cache, once written,
\* stays with its value.
C12_LookupsIdempotent == []LookupsAsFirstCall /\ [][CacheWriteOnce]_vars

\* An inbred animal was looked up again, from the cache, after other
\* animals listed after it had been computed.
C12_Witness ==
    /\ call.op = "get_inbreeding_traditional"
    /\ call.b = 1
    /\ call.ret > 0
    /\ \E k \in DOMAIN F_path_cache : k \in AnimalIds(df) /\ k # call.a /\ F_path_cache[k] > 0

\* C13: the caches belong to one PedigreeCalculator: what a lookup returns
\* in a session, and what the session's caches hold, is what a first call
\* on a new calculator for that session's table gives, whatever the other
\* sessions hold and whatever has been asked of them.
C13_SessionsIsolated ==
    /\ call.op = "session_lookup" =>
          call.ret = <<Get(calculate_inbreeding_tabular(calculator_df(sessions[call.b].data)),
                           call.a, 0),
                       FirstCallValue(sessions[call.b].data, call.a)>>
    /\ \A session_id \in DOMAIN sessions :
          /\ sessions[session_id].F_meuwissen_cache =
                 calculate_inbreeding_tabular(calculator_df(sessions[session_id].data))
          /\ \A k \in DOMAIN sessions[session_id].F_path_cache :
                 sessions[session_id].F_path_cache[k] =
                     FirstCallValue(sessions[session_id].data, k)

\* Two sessions hold, under one animal id, different parents and different
\* cached coefficients by both methods.
C13_Witness ==
    /\ Len(sessions) = 2
    /\ \E k \in DOMAIN sessions[1].F_path_cache \cap DOMAIN sessions[2].F_path_cache :
          /\ sessions[1].F_path_cache[k] # sessions[2].F_path_cache[k]
          /\ sessions[1].F_meuwissen_cache[k] # sessions[2].F_meuwissen_cache[k]
          /\ RowOf(sessions[1].data, k) # RowOf(sessions[2].data, k)
    /\ call.op = "session_lookup"

\* The sum of offspring_ibc over the details with index in K.
RECURSIVE SumOfOffspringIbc(_, _)
SumOfOffspringIbc(details, K) ==
    IF K = {} THEN 0
    ELSE LET k == CHOOSE x \in K : TRUE
         IN  details[k].offspring_ibc + SumOfOffspringIbc(details, K \ {k})

EveryOffspringIbcIsZero ==
    simulation.done =>
        \A k \in DOMAIN simulation.data :
            /\ simulation.data[k].total_ibc = 0
            /\ \A j \in DOMAIN simulation.data[k].details :
                  simulation.data[k].details[j].offspring_ibc = 0

\* The row number of the animal: in Pedigrees the rows are in birth order,
\* every parent in a row before its offspring's.
BirthRank(rows, animal_id) == CHOOSE k \in DOMAIN rows : rows[k].animal_id = animal_id

\* The same pedigree with every animal renumbered by its row number.
Renumbered(rows) ==
    [k \in DOMAIN rows |->
        Row(k,
            IF notna(rows[k].sire_id) THEN BirthRank(rows, rows[k].sire_id) ELSE NA,
            IF notna(rows[k].dam_id) THEN BirthRank(rows, rows[k].dam_id) ELSE NA)]

\* C15: calculate_inbreeding_tabular reads no relationship before it is
\* computed, whatever the ids: an animal with both parents listed gets the
\* coancestry of its sire and dam, the coefficient it gets when the animals
\* are renumbered in birth order.
C15_TabularUnchangedByRenumbering ==
    \A e \in DataEvents :
        HasBothParents(df, e.animal_id) =>
            e.ibc_meuwissen =
                calculate_inbreeding_tabular(Renumbered(df))[BirthRank(df, e.animal_id)]

\* C16: path enumeration terminates, on every table validate_pedigree
\* accepts and on tables whose ancestry has a cycle: a call of
\* find_all_paths_to_ancestor, the search get_inbreeding_traditional and
\* calculate_coancestry run for every common ancestor, eventually returns.
C16_PathSearchReturns ==
    (call.op = "find_all_paths_to_ancestor: in loop") ~> (call.op = "find_all_paths_to_ancestor")

\* What holds of C16: on a table without an ancestry cycle the search returns.
AcyclicPathSearchReturns ==
    (call.op = "find_all_paths_to_ancestor: in loop" /\ ~Cyclic(df))
        ~> (call.op = "find_all_paths_to_ancestor")

\* The search taken step by step returns what the loop as a whole returns.
PathSearchAgreesWithLoop ==
    call.op = "find_all_paths_to_ancestor" =>
        call.ret = find_all_paths_to_ancestor(df_map_of(calculator_df(df)), call.a, call.b)

\* The step-by-step search and SearchDiverges agree: a search that returned
\* was not one that diverges, and a search that has followed MaxPathLen
\* parent edges is.
DivergingSearchesNeverReturn ==
    LET df_map == df_map_of(calculator_df(df))
    IN  /\ call.op = "find_all_paths_to_ancestor" => ~SearchDiverges(df_map, call.a, call.b)
        /\ (/\ call.op = "find_all_paths_to_ancestor: in loop"
            /\ \E k \in DOMAIN call.queue : call.queue[k][2] = MaxPathLen)
              => SearchDiverges(df_map, call.a, call.b)

\* On a table without a cycle the run with outcomes is the plain
\* computation: every row and cache entry is a first call's value.
RunAgreesWithCache ==
    /\ \A e \in DataEvents : e.ibc_traditional = FirstCallValue(df, e.animal_id)
    /\ \A k \in DOMAIN F_path_cache : F_path_cache[k] = FirstCallValue(df, k)

\* The events yielded so far: data rows in the table's order, each with both
\* coefficients and a progress in 0..100 that never decreases and is 100 on
\* the last row, then at most one 'complete' (after the last row) or
\* 'error' (in place of a row, on a table with a cycle) as the last event.
StreamShape ==
    LET animal_ids == [k \in DOMAIN df |-> calculator_df(df)[k].animal_id]
        n          == Len(df)
    IN  /\ Len(stream) <= n + 1
        /\ \A k \in DOMAIN stream :
              /\ k < Len(stream) => stream[k].type = "data"
              /\ stream[k].type \in {"data", "complete", "error"}
              /\ stream[k].type = "complete" => k = n + 1
              /\ stream[k].type = "error" => k <= n /\ Cyclic(df)
              /\ stream[k].type = "data" =>
                    /\ k <= n
                    /\ stream[k].animal_id = animal_ids[k]
                    /\ stream[k].ibc_meuwissen = F_meuwissen_cache[animal_ids[k]]
                    /\ stream[k].ibc_traditional = F_path_cache[animal_ids[k]]
                    /\ stream[k].progress \in 0..100
                    /\ k > 1 => stream[k - 1].progress <= stream[k].progress
                    /\ k = n => stream[k].progress = 100

\* The stream is whole: every row, then 'complete'.
StreamComplete ==
    /\ Len(stream) = Len(df) + 1
    /\ stream[Len(stream)].type = "complete"
    /\ \A k \in 1..Len(df) : stream[k].type = "data"

StreamEndedInError ==
    /\ Len(stream) = 2
    /\ stream[1].type = "data"
    /\ stream[2].type = "error"

\* A stream that stalls: the next animal's computation never returns.
StreamStalled ==
    /\ calculator = "ready"
    /\ Len(stream) < Len(df)
    /\ \A k \in DOMAIN stream : stream[k].type = "data"
    /\ PathBasedRun(df_map_of(calculator_df(df)), calculator_df(df)[Len(stream) + 1].animal_id,
                    F_path_cache, 1).kind = "hangs"

\* C18: for every pedigree accepted by validate_pedigree, every inbreeding
\* coefficient returned by calculate_inbreeding_tabular and by the
\* path-based method is at least 0 and strictly less than 1.
C18_CoefficientsInUnitInterval ==
    validation = "accepted" =>
        \A e \in DataEvents :
            /\ 0 <= e.ibc_meuwissen /\ e.ibc_meuwissen < One
            /\ 0 <= e.ibc_traditional /\ e.ibc_traditional < One

\* The tabular coefficients alone stay in [0, 1) on the accepted lines.
TabularInUnitInterval ==
    validation = "accepted" =>
        \A e \in DataEvents : 0 <= e.ibc_meuwissen /\ e.ibc_meuwissen < One

\* The path-based coefficients are never negative, and are below 1 for the
\* animals of the first four generations.
PathBasedBelowOneFourGenerations ==
    validation = "accepted" =>
        \A e \in DataEvents :
            /\ 0 <= e.ibc_traditional
            /\ e.animal_id <= 10 => e.ibc_traditional < One

\* The rows of the fifth generation: tabular 0.59375, path-based 1.1875.
FifthGenerationValues ==
    \A e \in DataEvents :
        e.animal_id >= 11 =>
            /\ 32 * e.ibc_meuwissen = 19 * One
            /\ 16 * e.ibc_traditional = 19 * One
====
